---- MODULE Spec2Model ----
(***************************************************************************)
(* The pipelining client of go-hlld: Client.Execute, Client.Close,         *)
(* Client.isClosed, Client.reader and Future, as a state machine.          *)
(* Every thread is a goroutine; one step is one observable operation on    *)
(* the shared state (a mutex, a channel, the connection).                  *)
(***************************************************************************)
EXTENDS Integers, Sequences, FiniteSets, TLC

\* ---------------------------------------------------------------- bounds

\* Config.MaxPipeline: the capacity of decodeCh.
MaxPipeline == 1

\* The number of Execute calls made over the life of the client.
MaxCmds == 4

\* The number of Close calls made by the client's users.
MaxCloses == 2

\* The goroutines of the client's users.
Threads == {"t1", "t2"}

Reader == "reader"

Procs == Threads \cup {Reader}

None == "none"

Cmds == 1..MaxCmds

\* ------------------------------------------------------------ error values

ErrNil == "nil"

ErrClientClosed == "ErrClientClosed"

\* The error of a failed Decode (a read error, a deadline, a bad first line).
ErrDecode == "ErrDecode"

\* The error of a failed Encode or Flush.
ErrWrite == "ErrWrite"

\* ------------------------------------------------------------------ state

VARIABLES
    pc,         \* where each goroutine is
    retAddr,    \* where a goroutine inside Close goes when Close returns
    cmd,        \* the command of a thread's Execute call (0: none)
    lret,       \* the value a thread's Execute is about to return
    execRet,    \* per command: what its Execute call returned
    nCmd,       \* Execute calls made so far
    nClose,     \* Close calls made by users so far
    writeLock,  \* Client.writeLock: its holder
    closedLock, \* Client.closedLock: its holder
    closed,     \* Client.closed
    closedCh,   \* Client.closedCh has been closed
    nCloseCh,   \* how many times close(closedCh) ran
    nConnClose, \* how many times conn.Close() ran
    decodeCh,   \* Client.decodeCh: the buffered futures
    wire,       \* the commands flushed to the connection, in order
    fut,        \* per command: its Future
    next,       \* the reader's local next (0: none)
    decoded,    \* the commands Decode was called on, in order
    dequeued,   \* the futures the reader received from decodeCh, in order
    atClose,    \* the futures in decodeCh when closedCh was closed
    nextAtClose, \* the future the reader was decoding when closedCh was closed (0: none)
    afterClose  \* the commands whose Execute was called after closedCh was closed

\* A Future on its own, with the goroutines that wait on it.
VARIABLES
    fCmd,       \* Future.cmd
    fErr,       \* Future.err
    fDone,      \* Future.doneCh has been closed
    fMadeWith,  \* the command NewFuture was called with
    fArg,       \* the value respond was called with ("none": not called)
    rpc,        \* where the goroutine that calls respond is
    wpc,        \* where each waiting goroutine is
    wCalls,     \* per waiter: the calls of Error and Command it has made
    errsSeen,   \* the values the calls of Error have returned
    cmdsSeen    \* the values the calls of Command have returned

clientState == <<pc, retAddr, cmd, lret, execRet, nCmd, nClose, writeLock, closedLock,
                 closed, closedCh, nCloseCh, nConnClose, decodeCh, wire, fut, next,
                 decoded, dequeued, atClose, nextAtClose, afterClose>>

\* The commands the reader decodes and the response stream it decodes them
\* from: the commands in queue order, the response lines the connection
\* delivers and how many of them have been read, the reader's position, what
\* each command's Future was resolved with (for a direct Decode call: what the
\* last call returned), and what a call of Result returned.
VARIABLES
    dCmds,      \* the commands, in the order Execute queued them
    dIn,        \* the response lines the connection delivers before the deadline
    dPos,       \* the number of lines of dIn read so far
    dNext,      \* index in dCmds of the next command the reader receives
    dpc,        \* the reader's position: "select", "decode", "close", "closed"
    dResp,      \* per command: the error its Decode returned, None before
    dClosed,    \* the reader has called c.Close()
    dRes,       \* per command: what the last call of Result returned
    dStart,     \* history: per command, dPos when its last Decode began
    dGot,       \* history: per command, the lines its last completed Decode read
    dDone       \* history: per command, the number of its completed Decodes

futVars == <<fCmd, fErr, fDone, fMadeWith, fArg, rpc, wpc, wCalls, errsSeen, cmdsSeen>>

\* What the client's steps leave alone.
\* A constructor call and the Execute of what it returned: the constructor's
\* arguments, its outcome and the bytes Encode wrote.
VARIABLES
    nKind,      \* the constructor called, by the kind of its command
    nName,      \* the set name (the prefix for list), a string of code points
    nKeys,      \* setkeys: the keys the constructor has looked at so far
    nOut,       \* None, "cmd" (a command and a nil error) or "error" (nil and an error)
    nOpts,      \* create: the fields Precision, ErrThreshold and InMemory
    nWire,      \* the bytes written to the connection
    npc         \* "idle", "call", "keys", "done", "sent"

\* A call of NewClient: the config it is given and what it returns.
VARIABLES
    confArg,    \* the config argument; nil is [nil |-> TRUE, ...]
    confCfg,    \* the local variable config
    confOut,    \* None, "client" (a client and a nil error) or "error" (nil and an error)
    confReader, \* go c.reader() has run
    confpc      \* "idle", "call", "validate", "make", "done"

decVars == <<dCmds, dIn, dPos, dNext, dpc, dResp, dClosed, dRes, dStart, dGot, dDone>>

newVars == <<nKind, nName, nKeys, nOut, nOpts, nWire, npc>>

confVars == <<confArg, confCfg, confOut, confReader, confpc>>

auxVars == <<futVars, decVars, newVars, confVars>>

vars == <<clientState, auxVars>>

outsideFuture == <<clientState, decVars, newVars, confVars>>

outsideCommands == <<clientState, futVars, newVars, confVars>>

outsideNew == <<clientState, futVars, decVars, confVars>>

outsideConf == <<clientState, futVars, decVars, newVars>>

clientVars == <<closed, closedCh, nCloseCh, nConnClose, atClose, nextAtClose>>

histVars == <<decoded, dequeued, afterClose>>

\* ----------------------------------------------------------------- Future

\* NewFuture: cmd set, doneCh open, err unset.
NewFuture == [made |-> TRUE, done |-> 0, err |-> None, by |-> None]

NoFuture == [made |-> FALSE, done |-> 0, err |-> None, by |-> None]

\* Future.respond(err), called by `who`: stores err, closes doneCh.
respond(futs, f, e, who) ==
    [futs EXCEPT ![f] = [made |-> @.made, done |-> @.done + 1, err |-> e, by |-> who]]

\* ---------------------------------------------------------------- helpers

\* Faulty variant of Push: the value goes to the front of the buffer.
PushFront(q, f) == <<f>> \o q

\* A send on decodeCh: the value goes to the back of the buffer.
Push(q, f) == Append(q, f)

\* Faulty variant of CanPush: decodeCh is made without a capacity bound.
CanPushAlways(q) == TRUE

\* A send on decodeCh can proceed.
CanPush(q) == Len(q) < MaxPipeline

\* Client.isClosed: a non-blocking receive on closedCh.
isClosed == closedCh

\* The outcomes of Encode followed by Flush: a write on a closed connection
\* fails; on an open one it succeeds or fails (an I/O error, the deadline).
WriteOutcomes == IF nConnClose > 0 THEN {ErrWrite} ELSE {ErrNil, ErrWrite}

\* The outcomes of Decode: a response may be buffered, or the read may fail.
DecodeOutcomes == {ErrNil, ErrDecode}

\* ------------------------------------------------------------------- Init

ClientInit ==
    /\ pc = [p \in Procs |-> IF p = Reader THEN "r_select" ELSE "idle"]
    /\ retAddr = [p \in Procs |-> None]
    /\ cmd = [t \in Threads |-> 0]
    /\ lret = [t \in Threads |-> None]
    /\ execRet = [c \in Cmds |-> None]
    /\ nCmd = 0
    /\ nClose = 0
    /\ writeLock = None
    /\ closedLock = None
    /\ closed = FALSE
    /\ closedCh = FALSE
    /\ nCloseCh = 0
    /\ nConnClose = 0
    /\ decodeCh = <<>>
    /\ wire = <<>>
    /\ fut = [c \in Cmds |-> NoFuture]
    /\ next = 0
    /\ decoded = <<>>
    /\ dequeued = <<>>
    /\ atClose = {}
    /\ nextAtClose = 0
    /\ afterClose = {}

\* The goroutines that wait on one Future.
Waiters == {"w1", "w2"}

\* The calls each waiter makes.
MaxWaiterCalls == 2

\* The commands a Future is made with.
FutCmds == {"create", "list"}

\* The values respond is called with.
FutErrs == {ErrNil, ErrClientClosed, ErrDecode}

\* f := NewFuture(cmd): err is the zero value, doneCh is open.
FutNew(c) ==
    /\ fCmd = c
    /\ fMadeWith = c
    /\ fErr = ErrNil
    /\ fDone = FALSE
    /\ fArg = None
    /\ rpc = "idle"
    /\ wpc = [w \in Waiters |-> "idle"]
    /\ wCalls = [w \in Waiters |-> 0]
    /\ errsSeen = {}
    /\ cmdsSeen = {}

\* No command is being decoded.
DecIdle ==
    /\ dCmds = <<>>
    /\ dIn = <<>>
    /\ dPos = 0
    /\ dNext = 1
    /\ dpc = "select"
    /\ dResp = <<>>
    /\ dClosed = FALSE
    /\ dRes = <<>>
    /\ dStart = <<>>
    /\ dGot = <<>>
    /\ dDone = <<>>

\* No constructor has been called.
NewIdle ==
    /\ nKind = None
    /\ nName = <<>>
    /\ nKeys = <<>>
    /\ nOut = None
    /\ nOpts = [Precision |-> 0, ErrThreshold |-> 0, InMemory |-> FALSE]
    /\ nWire = <<>>
    /\ npc = "idle"

\* A *Config: nil, or a pointer to a Config with these fields. Timeout is
\* in milliseconds.
NilConfig == [nil |-> TRUE, MaxPipeline |-> 0, Timeout |-> 0]

Config(m, t) == [nil |-> FALSE, MaxPipeline |-> m, Timeout |-> t]

\* NewClient is called with the config a.
ConfStart(a) ==
    /\ confArg = a
    /\ confCfg = a
    /\ confOut = None
    /\ confReader = FALSE
    /\ confpc = "call"

\* The model of a client that exists: NewClient returned it, with its reader
\* started.
ConfIdle ==
    /\ confArg = NilConfig
    /\ confCfg = NilConfig
    /\ confOut = None
    /\ confReader = FALSE
    /\ confpc = "idle"

Init == ClientInit /\ FutNew("create") /\ DecIdle /\ NewIdle /\ ConfIdle

\* ------------------------------------------------------------------ Close

\* A user calls Close.
CallClose(t) ==
    /\ pc[t] = "idle"
    /\ nClose < MaxCloses
    /\ nClose' = nClose + 1
    /\ pc' = [pc EXCEPT ![t] = "c_lock"]
    /\ retAddr' = [retAddr EXCEPT ![t] = "idle"]
    /\ UNCHANGED <<cmd, lret, execRet, nCmd, writeLock, closedLock, clientVars,
                   decodeCh, wire, fut, next, histVars>>
    /\ UNCHANGED auxVars

\* closedLock.Lock(), at the head of Close and again as the deferred call that
\* runs when Close returns. sync.Mutex is not reentrant: Lock waits for the
\* mutex to be free, whoever holds it.
CloseLock(p) ==
    /\ pc[p] \in {"c_lock", "c_defer"}
    /\ closedLock = None
    /\ closedLock' = p
    /\ pc' = [pc EXCEPT ![p] = IF pc[p] = "c_lock" THEN "c_check" ELSE retAddr[p]]
    /\ UNCHANGED <<retAddr, cmd, lret, execRet, nCmd, nClose, writeLock, clientVars,
                   decodeCh, wire, fut, next, histVars>>
    /\ UNCHANGED auxVars

\* if c.closed { return nil }; c.closed = true; close(c.closedCh)
CloseCheck(p) ==
    /\ pc[p] = "c_check"
    /\ IF closed
       THEN /\ pc' = [pc EXCEPT ![p] = "c_defer"]
            /\ UNCHANGED <<closed, closedCh, nCloseCh, atClose, nextAtClose>>
       ELSE /\ closed' = TRUE
            /\ closedCh' = TRUE
            /\ nCloseCh' = nCloseCh + 1
            /\ atClose' = {decodeCh[i] : i \in 1..Len(decodeCh)}
            /\ nextAtClose' = next
            /\ pc' = [pc EXCEPT ![p] = "c_conn"]
    /\ UNCHANGED <<retAddr, cmd, lret, execRet, nCmd, nClose, writeLock, closedLock,
                   nConnClose, decodeCh, wire, fut, next, histVars>>
    /\ UNCHANGED auxVars

\* c.conn.Close(); return nil (the deferred call runs next)
CloseConn(p) ==
    /\ pc[p] = "c_conn"
    /\ nConnClose' = nConnClose + 1
    /\ pc' = [pc EXCEPT ![p] = "c_defer"]
    /\ UNCHANGED <<retAddr, cmd, lret, execRet, nCmd, nClose, writeLock, closedLock,
                   closed, closedCh, nCloseCh, atClose, nextAtClose, decodeCh, wire,
                   fut, next, histVars>>
    /\ UNCHANGED auxVars

\* ---------------------------------------------------------------- Execute

\* A user calls Execute with a new command.
CallExecute(t) ==
    /\ pc[t] = "idle"
    /\ nCmd < MaxCmds
    /\ nCmd' = nCmd + 1
    /\ cmd' = [cmd EXCEPT ![t] = nCmd + 1]
    /\ lret' = [lret EXCEPT ![t] = None]
    /\ afterClose' = IF isClosed THEN afterClose \cup {nCmd + 1} ELSE afterClose
    /\ pc' = [pc EXCEPT ![t] = "e_lock"]
    /\ UNCHANGED <<retAddr, execRet, nClose, writeLock, closedLock, clientVars,
                   decodeCh, wire, fut, next, decoded, dequeued>>
    /\ UNCHANGED auxVars

\* Faulty variant of ExecLock: Execute does not wait for the write lock.
ExecLockNoWait(t) ==
    /\ pc[t] = "e_lock"
    /\ writeLock' = t
    /\ pc' = [pc EXCEPT ![t] = "e_check"]
    /\ UNCHANGED <<retAddr, cmd, lret, execRet, nCmd, nClose, closedLock, clientVars,
                   decodeCh, wire, fut, next, histVars>>
    /\ UNCHANGED auxVars

\* c.writeLock.Lock()
ExecLock(t) ==
    /\ pc[t] = "e_lock"
    /\ writeLock = None
    /\ writeLock' = t
    /\ pc' = [pc EXCEPT ![t] = "e_check"]
    /\ UNCHANGED <<retAddr, cmd, lret, execRet, nCmd, nClose, closedLock, clientVars,
                   decodeCh, wire, fut, next, histVars>>
    /\ UNCHANGED auxVars

\* if c.isClosed() { return nil, ErrClientClosed }
ExecCheck(t) ==
    /\ pc[t] = "e_check"
    /\ IF isClosed
       THEN /\ lret' = [lret EXCEPT ![t] = ErrClientClosed]
            /\ pc' = [pc EXCEPT ![t] = "e_ret"]
       ELSE /\ pc' = [pc EXCEPT ![t] = "e_write"]
            /\ UNCHANGED lret
    /\ UNCHANGED <<retAddr, cmd, execRet, nCmd, nClose, writeLock, closedLock,
                   clientVars, decodeCh, wire, fut, next, histVars>>
    /\ UNCHANGED auxVars

\* Faulty variant of ExecWrite: the write lock is released after the flush,
\* before the push.
ExecWriteThenUnlock(t) ==
    /\ pc[t] = "e_write"
    /\ \E e \in WriteOutcomes :
        IF e = ErrNil
        THEN /\ wire' = Append(wire, cmd[t])
             /\ pc' = [pc EXCEPT ![t] = "e_push"]
             /\ writeLock' = None
             /\ UNCHANGED <<lret, retAddr>>
        ELSE /\ lret' = [lret EXCEPT ![t] = e]
             /\ pc' = [pc EXCEPT ![t] = "c_lock"]
             /\ retAddr' = [retAddr EXCEPT ![t] = "e_ret"]
             /\ UNCHANGED <<wire, writeLock>>
    /\ UNCHANGED <<cmd, execRet, nCmd, nClose, closedLock, clientVars,
                   decodeCh, fut, next, histVars>>
    /\ UNCHANGED auxVars

\* err := cmd.Encode(c.bufW); if err == nil { err = c.bufW.Flush() }
\* if err != nil { c.Close(); return nil, err }
ExecWrite(t) ==
    /\ pc[t] = "e_write"
    /\ \E e \in WriteOutcomes :
        IF e = ErrNil
        THEN /\ wire' = Append(wire, cmd[t])
             /\ pc' = [pc EXCEPT ![t] = "e_push"]
             /\ UNCHANGED <<lret, retAddr>>
        ELSE /\ lret' = [lret EXCEPT ![t] = e]
             /\ pc' = [pc EXCEPT ![t] = "c_lock"]
             /\ retAddr' = [retAddr EXCEPT ![t] = "e_ret"]
             /\ UNCHANGED wire
    /\ UNCHANGED <<cmd, execRet, nCmd, nClose, writeLock, closedLock, clientVars,
                   decodeCh, fut, next, histVars>>
    /\ UNCHANGED auxVars

\* f := NewFuture(cmd); select { case c.decodeCh <- f: }
ExecPushSend(t) ==
    /\ pc[t] = "e_push"
    /\ CanPush(decodeCh)
    /\ decodeCh' = Push(decodeCh, cmd[t])
    /\ fut' = [fut EXCEPT ![cmd[t]] = NewFuture]
    /\ lret' = [lret EXCEPT ![t] = "future"]
    /\ pc' = [pc EXCEPT ![t] = "e_ret"]
    /\ UNCHANGED <<retAddr, cmd, execRet, nCmd, nClose, writeLock, closedLock,
                   clientVars, wire, next, histVars>>
    /\ UNCHANGED auxVars

\* Faulty variant of ExecPushClosed: the future is resolved and queued as well.
ExecPushClosedAndSend(t) ==
    /\ pc[t] = "e_push"
    /\ closedCh
    /\ fut' = respond([fut EXCEPT ![cmd[t]] = NewFuture], cmd[t], ErrClientClosed, "execute")
    /\ decodeCh' = IF Len(decodeCh) < MaxPipeline THEN Append(decodeCh, cmd[t]) ELSE decodeCh
    /\ lret' = [lret EXCEPT ![t] = "future"]
    /\ pc' = [pc EXCEPT ![t] = "e_ret"]
    /\ UNCHANGED <<retAddr, cmd, execRet, nCmd, nClose, writeLock, closedLock,
                   clientVars, wire, next, decoded, dequeued, afterClose>>
    /\ UNCHANGED auxVars

\* Faulty variant of ExecPushClosed: the future is returned without respond.
ExecPushClosedNoRespond(t) ==
    /\ pc[t] = "e_push"
    /\ closedCh
    /\ fut' = [fut EXCEPT ![cmd[t]] = NewFuture]
    /\ lret' = [lret EXCEPT ![t] = "future"]
    /\ pc' = [pc EXCEPT ![t] = "e_ret"]
    /\ UNCHANGED <<retAddr, cmd, execRet, nCmd, nClose, writeLock, closedLock,
                   clientVars, decodeCh, wire, next, histVars>>
    /\ UNCHANGED auxVars

\* f := NewFuture(cmd); select { case <-c.closedCh: f.respond(ErrClientClosed) }
ExecPushClosed(t) ==
    /\ pc[t] = "e_push"
    /\ closedCh
    /\ fut' = respond([fut EXCEPT ![cmd[t]] = NewFuture], cmd[t], ErrClientClosed, "execute")
    /\ lret' = [lret EXCEPT ![t] = "future"]
    /\ pc' = [pc EXCEPT ![t] = "e_ret"]
    /\ UNCHANGED <<retAddr, cmd, execRet, nCmd, nClose, writeLock, closedLock,
                   clientVars, decodeCh, wire, next, decoded, dequeued, afterClose>>
    /\ UNCHANGED auxVars

\* Faulty variant of ExecReturn: the write lock is not released.
ExecReturnKeepLock(t) ==
    /\ pc[t] = "e_ret"
    /\ execRet' = [execRet EXCEPT ![cmd[t]] = lret[t]]
    /\ pc' = [pc EXCEPT ![t] = "idle"]
    /\ UNCHANGED <<retAddr, cmd, lret, nCmd, nClose, writeLock, closedLock, clientVars,
                   decodeCh, wire, fut, next, histVars>>
    /\ UNCHANGED auxVars

\* return, then the deferred c.writeLock.Unlock()
ExecReturn(t) ==
    /\ pc[t] = "e_ret"
    /\ execRet' = [execRet EXCEPT ![cmd[t]] = lret[t]]
    /\ writeLock' = None
    /\ pc' = [pc EXCEPT ![t] = "idle"]
    /\ UNCHANGED <<retAddr, cmd, lret, nCmd, nClose, closedLock, clientVars,
                   decodeCh, wire, fut, next, histVars>>
    /\ UNCHANGED auxVars

\* ----------------------------------------------------------------- reader

\* select { case next := <-c.decodeCh: }
ReaderRecv ==
    /\ pc[Reader] = "r_select"
    /\ decodeCh # <<>>
    /\ next' = Head(decodeCh)
    /\ decodeCh' = Tail(decodeCh)
    /\ dequeued' = Append(dequeued, Head(decodeCh))
    /\ pc' = [pc EXCEPT ![Reader] = "r_decode"]
    /\ UNCHANGED <<retAddr, cmd, lret, execRet, nCmd, nClose, writeLock, closedLock,
                   clientVars, wire, fut, decoded, afterClose>>
    /\ UNCHANGED auxVars

\* select { case <-c.closedCh: goto DRAIN }
ReaderClosed ==
    /\ pc[Reader] = "r_select"
    /\ closedCh
    /\ pc' = [pc EXCEPT ![Reader] = "r_drain"]
    /\ UNCHANGED <<retAddr, cmd, lret, execRet, nCmd, nClose, writeLock, closedLock,
                   clientVars, decodeCh, wire, fut, next, histVars>>
    /\ UNCHANGED auxVars

\* Faulty variant of ReaderDecode: the reader shuts down after every Decode,
\* failed or not.
ReaderDecodeAlwaysClose ==
    /\ pc[Reader] = "r_decode"
    /\ \E e \in DecodeOutcomes :
        /\ decoded' = Append(decoded, next)
        /\ fut' = respond(fut, next, e, "reader")
        /\ pc' = [pc EXCEPT ![Reader] = "c_lock"]
        /\ retAddr' = [retAddr EXCEPT ![Reader] = "r_drain"]
    /\ next' = 0
    /\ UNCHANGED <<cmd, lret, execRet, nCmd, nClose, writeLock, closedLock,
                   clientVars, decodeCh, wire, dequeued, afterClose>>
    /\ UNCHANGED auxVars

\* err := next.Command().Decode(c.bufR); next.respond(err)
\* if err != nil { c.Close(); goto DRAIN }
ReaderDecode ==
    /\ pc[Reader] = "r_decode"
    /\ \E e \in DecodeOutcomes :
        /\ decoded' = Append(decoded, next)
        /\ fut' = respond(fut, next, e, "reader")
            /\ IF e = ErrNil
           THEN /\ pc' = [pc EXCEPT ![Reader] = "r_select"]
                /\ UNCHANGED retAddr
           ELSE /\ pc' = [pc EXCEPT ![Reader] = "c_lock"]
                /\ retAddr' = [retAddr EXCEPT ![Reader] = "r_drain"]
    /\ next' = 0
    /\ UNCHANGED <<cmd, lret, execRet, nCmd, nClose, writeLock, closedLock,
                   clientVars, decodeCh, wire, dequeued, afterClose>>
    /\ UNCHANGED auxVars

\* DRAIN: select { case next := <-c.decodeCh: next.respond(ErrClientClosed) }
ReaderDrain ==
    /\ pc[Reader] = "r_drain"
    /\ decodeCh # <<>>
    /\ decodeCh' = Tail(decodeCh)
    /\ dequeued' = Append(dequeued, Head(decodeCh))
    /\ fut' = respond(fut, Head(decodeCh), ErrClientClosed, "reader")
    /\ UNCHANGED <<pc, retAddr, cmd, lret, execRet, nCmd, nClose, writeLock,
                   closedLock, clientVars, wire, next, decoded, afterClose>>
    /\ UNCHANGED auxVars

\* DRAIN: select { default: return }
ReaderExit ==
    /\ pc[Reader] = "r_drain"
    /\ decodeCh = <<>>
    /\ pc' = [pc EXCEPT ![Reader] = "r_done"]
    /\ UNCHANGED <<retAddr, cmd, lret, execRet, nCmd, nClose, writeLock, closedLock,
                   clientVars, decodeCh, wire, fut, next, histVars>>
    /\ UNCHANGED auxVars

\* ------------------------------------------------------------ specification

\* The steps of a call in progress (not the decision to make a call).
CloseStep(p) == CloseLock(p) \/ CloseCheck(p) \/ CloseConn(p)

ExecStep(t) ==
    ExecLock(t) \/ ExecCheck(t) \/ ExecWrite(t) \/ ExecPushSend(t)
        \/ ExecPushClosed(t) \/ ExecReturn(t)

ReaderStep ==
    ReaderRecv \/ ReaderClosed \/ ReaderDecode \/ ReaderDrain \/ ReaderExit

Next ==
    \/ \E t \in Threads : CallExecute(t) \/ CallClose(t) \/ ExecStep(t)
    \/ \E p \in Procs : CloseStep(p)
    \/ ReaderStep

Spec == Init /\ [][Next]_vars

\* The Go scheduler runs every runnable goroutine: a step of a call in progress
\* that stays possible is taken. Users need not make further calls.
Fairness ==
    /\ \A t \in Threads : WF_vars(ExecStep(t))
    /\ \A p \in Procs : WF_vars(CloseStep(p))
    /\ WF_vars(ReaderStep)

FairSpec == Spec /\ Fairness

\* ------------------------------------------------------ Future on its own

\* Faulty variant of respond's first statement: respond closes doneCh and leaves err unset.
FutRespondNoStore ==
    /\ rpc = "idle"
    /\ \E e \in FutErrs : fArg' = e
    /\ rpc' = "closing"
    /\ UNCHANGED <<fCmd, fErr, fDone, fMadeWith, wpc, wCalls, errsSeen, cmdsSeen,
                   outsideFuture>>

\* Future.respond(err), first statement: f.err = err. The client calls respond
\* once on a Future (C3), so there is one call.
FutRespondStore ==
    /\ rpc = "idle"
    /\ \E e \in FutErrs :
        /\ fErr' = e
        /\ fArg' = e
    /\ rpc' = "closing"
    /\ UNCHANGED <<fCmd, fDone, fMadeWith, wpc, wCalls, errsSeen, cmdsSeen, outsideFuture>>

\* Future.respond(err), second statement: close(f.doneCh).
FutRespondClose ==
    /\ rpc = "closing"
    /\ fDone' = TRUE
    /\ rpc' = "done"
    /\ UNCHANGED <<fCmd, fErr, fMadeWith, fArg, wpc, wCalls, errsSeen, cmdsSeen,
                   outsideFuture>>

\* A goroutine calls f.Error().
FutCallError(w) ==
    /\ wpc[w] = "idle"
    /\ wCalls[w] < MaxWaiterCalls
    /\ wCalls' = [wCalls EXCEPT ![w] = @ + 1]
    /\ wpc' = [wpc EXCEPT ![w] = "recv"]
    /\ UNCHANGED <<fCmd, fErr, fDone, fMadeWith, fArg, rpc, errsSeen, cmdsSeen,
                   outsideFuture>>

\* Faulty variant of FutErrorRecv: Error does not wait for doneCh.
FutErrorRecvNoWait(w) ==
    /\ wpc[w] = "recv"
    /\ wpc' = [wpc EXCEPT ![w] = "read"]
    /\ UNCHANGED <<fCmd, fErr, fDone, fMadeWith, fArg, rpc, wCalls, errsSeen, cmdsSeen,
                   outsideFuture>>

\* <-f.doneCh: a receive on a channel nothing is sent on proceeds once the
\* channel is closed.
FutErrorRecv(w) ==
    /\ wpc[w] = "recv"
    /\ fDone
    /\ wpc' = [wpc EXCEPT ![w] = "read"]
    /\ UNCHANGED <<fCmd, fErr, fDone, fMadeWith, fArg, rpc, wCalls, errsSeen, cmdsSeen,
                   outsideFuture>>

\* return f.err
FutErrorRead(w) ==
    /\ wpc[w] = "read"
    /\ errsSeen' = errsSeen \cup {fErr}
    /\ wpc' = [wpc EXCEPT ![w] = "idle"]
    /\ UNCHANGED <<fCmd, fErr, fDone, fMadeWith, fArg, rpc, wCalls, cmdsSeen,
                   outsideFuture>>

\* A goroutine calls f.Command(): return f.cmd
FutCommand(w) ==
    /\ wpc[w] = "idle"
    /\ wCalls[w] < MaxWaiterCalls
    /\ wCalls' = [wCalls EXCEPT ![w] = @ + 1]
    /\ cmdsSeen' = cmdsSeen \cup {fCmd}
    /\ UNCHANGED <<fCmd, fErr, fDone, fMadeWith, fArg, rpc, wpc, errsSeen, outsideFuture>>

FutInit == ClientInit /\ DecIdle /\ NewIdle /\ ConfIdle /\ \E c \in FutCmds : FutNew(c)

FutNext ==
    \/ FutRespondStore
    \/ FutRespondClose
    \/ \E w \in Waiters :
        FutCallError(w) \/ FutErrorRecv(w) \/ FutErrorRead(w) \/ FutCommand(w)

FutSpec == FutInit /\ [][FutNext]_vars

\* A goroutine inside Error or respond that can go on does go on; nobody has to
\* call respond or Error.
FutFairSpec ==
    /\ FutSpec
    /\ WF_vars(FutRespondClose)
    /\ \A w \in Waiters : WF_vars(FutErrorRecv(w) \/ FutErrorRead(w))

\* --------------------------------------------------------------- commands

\* The command variants. "drop", "close" and "clear" are the values of
\* SetCommand.Command; the others name the command's type.
Kinds == {"create", "list", "drop", "close", "clear", "setkeys", "flush", "info"}

SingleLineKinds == {"create", "drop", "close", "clear", "setkeys", "flush"}

\* Response lines, each with its terminating newline as ReadString returns it.
LDone == "Done\n"

LExists == "Exists\n"

LDeleting == "Delete in progress\n"

LNotExist == "Set does not exist\n"

LNotProxied == "Set is not proxied. Close it first.\n"

LStart == "START\n"

LEnd == "END\n"

\* A line none of the commands knows, and the empty line.
LBogus == "bogus\n"

LEmpty == "\n"

\* A well-formed line of a list block and one of an info block.
LEntry == "foo 0.02 12 3 4\n"

LSize == "size 3\n"

Lines == {LDone, LExists, LDeleting, LNotExist, LNotProxied, LStart, LEnd, LBogus,
          LEmpty, LEntry, LSize}

\* More lines of list blocks: a second well-formed entry, an entry without its
\* storage field and one with a negative size.
LEntry2 == "bar 0.05 10 0 7\n"

LShort == "foo 0.02 12 3\n"

LNegSize == "foo 0.02 12 -3 4\n"

\* More lines of info blocks: in_memory with its value, without a value and
\* with a value that is no digit, a size that is no number, and an eps.
LInMemory == "in_memory 1\n"

LInMemoryBare == "in_memory\n"

LInMemoryBad == "in_memory x\n"

LSizeBad == "size x\n"

LEps == "eps 0.02\n"

\* The lines of the list blocks and of the info blocks decoded below.
ListLines == {LStart, LEnd, LEntry, LEntry2, LShort, LNegSize, LBogus}

InfoLines == {LStart, LEnd, LNotExist, LSize, LInMemory, LInMemoryBare, LInMemoryBad,
              LSizeBad, LEps, LBogus}

\* The bytes of a line, as code points.
Bytes(line) ==
    CASE line = LDone ->
            <<68, 111, 110, 101, 10>>
      [] line = LExists ->
            <<69, 120, 105, 115, 116, 115, 10>>
      [] line = LDeleting ->
            <<68, 101, 108, 101, 116, 101, 32, 105, 110, 32, 112, 114, 111, 103, 114,
              101, 115, 115, 10>>
      [] line = LNotExist ->
            <<83, 101, 116, 32, 100, 111, 101, 115, 32, 110, 111, 116, 32, 101, 120,
              105, 115, 116, 10>>
      [] line = LNotProxied ->
            <<83, 101, 116, 32, 105, 115, 32, 110, 111, 116, 32, 112, 114, 111, 120,
              105, 101, 100, 46, 32, 67, 108, 111, 115, 101, 32, 105, 116, 32, 102,
              105, 114, 115, 116, 46, 10>>
      [] line = LStart ->
            <<83, 84, 65, 82, 84, 10>>
      [] line = LEnd ->
            <<69, 78, 68, 10>>
      [] line = LBogus ->
            <<98, 111, 103, 117, 115, 10>>
      [] line = LEmpty ->
            <<10>>
      [] line = LEntry ->
            <<102, 111, 111, 32, 48, 46, 48, 50, 32, 49, 50, 32, 51, 32, 52, 10>>
      [] line = LSize ->
            <<115, 105, 122, 101, 32, 51, 10>>
      [] line = LEntry2 ->
            <<98, 97, 114, 32, 48, 46, 48, 53, 32, 49, 48, 32, 48, 32, 55, 10>>
      [] line = LShort ->
            <<102, 111, 111, 32, 48, 46, 48, 50, 32, 49, 50, 32, 51, 10>>
      [] line = LNegSize ->
            <<102, 111, 111, 32, 48, 46, 48, 50, 32, 49, 50, 32, 45, 51, 32, 52, 10>>
      [] line = LInMemory ->
            <<105, 110, 95, 109, 101, 109, 111, 114, 121, 32, 49, 10>>
      [] line = LInMemoryBare ->
            <<105, 110, 95, 109, 101, 109, 111, 114, 121, 10>>
      [] line = LInMemoryBad ->
            <<105, 110, 95, 109, 101, 109, 111, 114, 121, 32, 120, 10>>
      [] line = LSizeBad ->
            <<115, 105, 122, 101, 32, 120, 10>>
      [] line = LEps ->
            <<101, 112, 115, 32, 48, 46, 48, 50, 10>>

\* The errors of Decode and Result.
ErrRead == "read error"

ErrListStart == "expect list start block"

ErrInvalidResponse == "invalid response"

ErrNotDecoded == "result not decoded yet"

ErrParse == "failed to parse"

\* A command as its constructor leaves it: no result, no lines, not done.
NewCmd(kind) ==
    [kind |-> kind, result |-> "", lines |-> <<>>, done |-> FALSE, notExist |-> FALSE]

\* r.ReadString('\n') fails when no complete line arrives before the read
\* deadline; otherwise it returns the next line.
\* Decode of CreateCommand, SetCommand, SetKeysCommand and FlushCommand on the
\* unread lines s: the command after the call, the error returned and the
\* number of lines read.
SingleDecode(c, s) ==
    IF s = <<>>
    THEN [cmd |-> c, err |-> ErrRead, n |-> 0]
    ELSE [cmd |-> [c EXCEPT !.result = Head(s)], err |-> ErrNil, n |-> 1]

\* The loop of ListCommand.Decode and InfoCommand.Decode once started is true,
\* n lines having been read.
RECURSIVE BlockDecode(_, _, _)
BlockDecode(c, s, n) ==
    IF s = <<>>
    THEN [cmd |-> c, err |-> ErrRead, n |-> n]
    ELSE IF Head(s) = LEnd
         THEN [cmd |-> [c EXCEPT !.done = TRUE], err |-> ErrNil, n |-> n + 1]
         ELSE BlockDecode([c EXCEPT !.lines = Append(@, Head(s))], Tail(s), n + 1)

ListDecode(c, s) ==
    IF s = <<>>
    THEN [cmd |-> c, err |-> ErrRead, n |-> 0]
    ELSE IF Head(s) # LStart
         THEN [cmd |-> c, err |-> ErrListStart, n |-> 1]
         ELSE BlockDecode(c, Tail(s), 1)

\* Faulty variant of InfoDecode: after Set does not exist it reads one more
\* line if there is one.
InfoDecodeReadsOn(c, s) ==
    IF s = <<>>
    THEN [cmd |-> c, err |-> ErrRead, n |-> 0]
    ELSE CASE Head(s) = LNotExist ->
                [cmd |-> [c EXCEPT !.done = TRUE, !.notExist = TRUE],
                 err |-> ErrNil, n |-> IF Len(s) >= 2 THEN 2 ELSE 1]
           [] Head(s) = LStart ->
                BlockDecode([c EXCEPT !.notExist = FALSE], Tail(s), 1)
           [] OTHER ->
                [cmd |-> c, err |-> ErrInvalidResponse, n |-> 1]

\* InfoCommand.Decode.
InfoDecode(c, s) ==
    IF s = <<>>
    THEN [cmd |-> c, err |-> ErrRead, n |-> 0]
    ELSE CASE Head(s) = LNotExist ->
                [cmd |-> [c EXCEPT !.done = TRUE, !.notExist = TRUE],
                 err |-> ErrNil, n |-> 1]
           [] Head(s) = LStart ->
                BlockDecode([c EXCEPT !.notExist = FALSE], Tail(s), 1)
           [] OTHER ->
                [cmd |-> c, err |-> ErrInvalidResponse, n |-> 1]

\* Command.Decode, by the command's type.
Decode(c, s) ==
    CASE c.kind = "list" -> ListDecode(c, s)
      [] c.kind = "info" -> InfoDecode(c, s)
      [] OTHER -> SingleDecode(c, s)

\* What Result returns: the boolean (false where there is none), the slice or
\* the struct (as a sequence of one) with has = FALSE for nil, the error.
Bool(b, e) == [val |-> b, has |-> FALSE, ptr |-> <<>>, err |-> e]

Ptr(l, b) == [val |-> b, has |-> TRUE, ptr |-> l, err |-> ErrNil]

\* Faulty variant of CreateResult: the empty result is not told apart.
CreateResultNoCheck(c) ==
    CASE c.result = LDone -> Bool(TRUE, ErrNil)
      [] c.result = LExists -> Bool(TRUE, ErrNil)
      [] c.result = LDeleting -> Bool(FALSE, ErrNil)
      [] OTHER -> Bool(FALSE, ErrInvalidResponse)

CreateResult(c) ==
    CASE c.result = "" -> Bool(FALSE, ErrNotDecoded)
      [] c.result = LDone -> Bool(TRUE, ErrNil)
      [] c.result = LExists -> Bool(TRUE, ErrNil)
      [] c.result = LDeleting -> Bool(FALSE, ErrNil)
      [] OTHER -> Bool(FALSE, ErrInvalidResponse)

SetResult(c) ==
    CASE c.result = "" -> Bool(FALSE, ErrNotDecoded)
      [] c.result = LDone -> Bool(TRUE, ErrNil)
      [] c.result = LNotExist ->
            IF c.kind = "drop" THEN Bool(TRUE, ErrNil) ELSE Bool(FALSE, ErrNil)
      [] c.result = LNotProxied -> Bool(FALSE, ErrNil)
      [] OTHER -> Bool(FALSE, ErrInvalidResponse)

\* Faulty variant of SetKeysResult: a missing set counts as success.
SetKeysResultNotExistTrue(c) ==
    CASE c.result = "" -> Bool(FALSE, ErrNotDecoded)
      [] c.result = LDone -> Bool(TRUE, ErrNil)
      [] c.result = LNotExist -> Bool(TRUE, ErrNil)
      [] OTHER -> Bool(FALSE, ErrInvalidResponse)

SetKeysResult(c) ==
    CASE c.result = "" -> Bool(FALSE, ErrNotDecoded)
      [] c.result = LDone -> Bool(TRUE, ErrNil)
      [] c.result = LNotExist -> Bool(FALSE, ErrNil)
      [] OTHER -> Bool(FALSE, ErrInvalidResponse)

FlushResult(c) ==
    CASE c.result = "" -> Bool(FALSE, ErrNotDecoded)
      [] c.result = LDone -> Bool(TRUE, ErrNil)
      [] c.result = LNotExist -> Bool(FALSE, ErrNil)
      [] OTHER -> Bool(FALSE, ErrInvalidResponse)

\* A panic of the Go runtime (index or slice bounds out of range): the call
\* does not return.
ErrPanic == "panic"

\* The maximal runs of non-space bytes of b; cur is the run being read.
RECURSIVE Split(_, _, _)
Split(b, cur, acc) ==
    IF b = <<>>
    THEN IF cur = <<>> THEN acc ELSE Append(acc, cur)
    ELSE IF Head(b) \in {32, 9}
         THEN Split(Tail(b), <<>>, IF cur = <<>> THEN acc ELSE Append(acc, cur))
         ELSE Split(Tail(b), Append(cur, Head(b)), acc)

\* The space-separated fields of a line, its newline left out.
Fields(b) == Split(SubSeq(b, 1, Len(b) - 1), <<>>, <<>>)

IsDigits(t) == Len(t) >= 1 /\ \A i \in 1..Len(t) : t[i] \in 48..57

\* The number a string of digits denotes.
RECURSIVE ToNat(_)
ToNat(t) == IF t = <<>> THEN 0 ELSE 10 * ToNat(SubSeq(t, 1, Len(t) - 1)) + (t[Len(t)] - 48)

Unsigned(t) == IF t # <<>> /\ t[1] \in {43, 45} THEN Tail(t) ELSE t

DigitsOf(t) == SelectSeq(t, LAMBDA ch : ch \in 48..57)

\* strconv.ParseUint(t, 10, 64) succeeds on digits only; up to 19 digits fit 64
\* bits whatever they are.
ParsesUint(t) == IsDigits(t) /\ Len(t) <= 19

\* %d into an int: an optional sign and digits.
ParsesInt(t) == IsDigits(Unsigned(t)) /\ Len(Unsigned(t)) <= 18

\* strconv.ParseFloat(t, 64) and %f on the decimal forms: an optional sign,
\* digits with at most one point, one digit at least. (No line here has an
\* exponent, a hexadecimal form, inf or nan.)
ParsesFloat(t) ==
    LET m == Unsigned(t) IN
    /\ \A i \in 1..Len(m) : m[i] \in (48..57) \cup {46}
    /\ Cardinality({i \in 1..Len(m) : m[i] = 46}) <= 1
    /\ \E i \in 1..Len(m) : m[i] \in 48..57

\* The value of a decimal: sign, digits and the number of digits after the point.
FloatOf(t) ==
    LET m == Unsigned(t)
        pt == {i \in 1..Len(m) : m[i] = 46} IN
    [neg |-> t # <<>> /\ t[1] = 45,
     mant |-> ToNat(DigitsOf(m)),
     scale |-> IF pt = {} THEN 0 ELSE Len(m) - (CHOOSE i \in pt : TRUE)]

IntOf(t) == IF t[1] = 45 THEN 0 - ToNat(Unsigned(t)) ELSE ToNat(Unsigned(t))

\* fmt.Sscanf(line, "%s %f %d %d %d\n", ...): a word, a float, an int and two
\* uint64, separated by spaces, then the newline.
ScansAsListEntry(line) ==
    LET f == Fields(Bytes(line)) IN
    /\ Len(f) = 5
    /\ ParsesFloat(f[2])
    /\ ParsesInt(f[3])
    /\ ParsesUint(f[4])
    /\ ParsesUint(f[5])

\* The ListEntry Sscanf fills from a line it accepts.
ListEntryOf(line) ==
    LET f == Fields(Bytes(line)) IN
    [Name |-> f[1], ErrThreshold |-> FloatOf(f[2]), Precision |-> IntOf(f[3]),
     Size |-> ToNat(f[4]), Storage |-> ToNat(f[5])]

\* Faulty variant of ListResult: the entries come out last line first.
ListResultReversed(c) ==
    IF ~c.done
    THEN Bool(FALSE, ErrNotDecoded)
    ELSE IF \E i \in 1..Len(c.lines) : ~ScansAsListEntry(c.lines[i])
         THEN Bool(FALSE, ErrParse)
         ELSE Ptr([i \in 1..Len(c.lines) |->
                        ListEntryOf(c.lines[Len(c.lines) + 1 - i])], FALSE)

ListResult(c) ==
    IF ~c.done
    THEN Bool(FALSE, ErrNotDecoded)
    ELSE IF \E i \in 1..Len(c.lines) : ~ScansAsListEntry(c.lines[i])
         THEN Bool(FALSE, ErrParse)
         ELSE Ptr([i \in 1..Len(c.lines) |-> ListEntryOf(c.lines[i])], FALSE)

\* strings.HasPrefix(line, key)
HasPrefix(b, key) == Len(b) >= Len(key) /\ SubSeq(b, 1, Len(key)) = key

\* The keys of InfoCommand.Result, in the order of its switch: in_memory,
\* page_ins, page_outs, eps, precision, sets, size, storage.
InfoKeys ==
    << <<105, 110, 95, 109, 101, 109, 111, 114, 121>>,
       <<112, 97, 103, 101, 95, 105, 110, 115>>,
       <<112, 97, 103, 101, 95, 111, 117, 116, 115>>,
       <<101, 112, 115>>,
       <<112, 114, 101, 99, 105, 115, 105, 111, 110>>,
       <<115, 101, 116, 115>>,
       <<115, 105, 122, 101>>,
       <<115, 116, 111, 114, 97, 103, 101>> >>

InfoFields ==
    <<"InMemory", "PageIns", "PageOuts", "ErrThreshold", "Precision", "Sets", "Size",
      "Storage">>

\* info := &SetInfo{}
NewSetInfo ==
    [InMemory |-> FALSE, PageIns |-> 0, PageOuts |-> 0,
     ErrThreshold |-> [neg |-> FALSE, mant |-> 0, scale |-> 0],
     Precision |-> 0, Sets |-> 0, Size |-> 0, Storage |-> 0]

\* The first case of the switch whose key is a prefix of the line, 0 if none.
InfoCase(b) ==
    IF \E k \in 1..Len(InfoKeys) : HasPrefix(b, InfoKeys[k])
    THEN CHOOSE k \in 1..Len(InfoKeys) :
            /\ HasPrefix(b, InfoKeys[k])
            /\ \A j \in 1..(k - 1) : ~HasPrefix(b, InfoKeys[j])
    ELSE 0

\* One line of the loop of InfoCommand.Result: the SetInfo after it and the
\* error, if any. in_memory reads line[10]; the other cases parse
\* line[len(key)+1 : len(line)-1].
InfoLine(info, line) ==
    LET b == Bytes(line)
        k == InfoCase(b)
        from == Len(InfoKeys[k]) + 2
        num == SubSeq(b, from, Len(b) - 1) IN
    CASE k = 0 -> [info |-> info, err |-> ErrParse]
      [] k = 1 ->
            IF Len(b) <= 10
            THEN [info |-> info, err |-> ErrPanic]
            ELSE [info |-> [info EXCEPT !.InMemory = (b[11] = 49)], err |-> ErrNil]
      [] OTHER ->
            IF from - 1 > Len(b) - 1
            THEN [info |-> info, err |-> ErrPanic]
            ELSE IF k = 4
                 THEN IF ParsesFloat(num)
                      THEN [info |-> [info EXCEPT !.ErrThreshold = FloatOf(num)],
                            err |-> ErrNil]
                      ELSE [info |-> info, err |-> ErrParse]
                 ELSE IF ParsesUint(num)
                      THEN [info |-> [info EXCEPT ![InfoFields[k]] = ToNat(num)],
                            err |-> ErrNil]
                      ELSE [info |-> info, err |-> ErrParse]

\* for _, line := range c.lines, up to the first line that fails.
RECURSIVE InfoLoop(_, _)
InfoLoop(info, lines) ==
    IF lines = <<>>
    THEN [info |-> info, err |-> ErrNil]
    ELSE LET r == InfoLine(info, Head(lines)) IN
         IF r.err # ErrNil THEN r ELSE InfoLoop(r.info, Tail(lines))

InfoResult(c) ==
    IF ~c.done
    THEN Bool(FALSE, ErrNotDecoded)
    ELSE IF c.notExist
         THEN Bool(FALSE, ErrNil)
         ELSE LET r == InfoLoop(NewSetInfo, c.lines) IN
              IF r.err # ErrNil
              THEN Bool(FALSE, r.err)
              ELSE Ptr(<<r.info>>, TRUE)

\* Command.Result, by the command's type.
Result(c) ==
    CASE c.kind = "create" -> CreateResult(c)
      [] c.kind \in {"drop", "close", "clear"} -> SetResult(c)
      [] c.kind = "setkeys" -> SetKeysResult(c)
      [] c.kind = "flush" -> FlushResult(c)
      [] c.kind = "list" -> ListResult(c)
      [] c.kind = "info" -> InfoResult(c)

\* ------------------------------------------------- the reader and a stream

\* The number of commands queued and of response lines delivered.
MaxDecCmds == 2

MaxDecLines == 2

\* The response lines of the reader's stream.
DecLines == {LDone, LNotExist, LNotProxied, LBogus, LStart, LEnd}

SeqsUpTo(S, n) == UNION {[1..k -> S] : k \in 0..n}

\* No call of Result yet.
NoResult ==
    [called |-> FALSE, out |-> Bool(FALSE, ErrNil), after |-> 0, got |-> <<>>,
     failed |-> FALSE]

\* The commands of kinds q are queued and the connection delivers the lines s.
DecNew(q, s) ==
    /\ dCmds = [i \in 1..Len(q) |-> NewCmd(q[i])]
    /\ dIn = s
    /\ dPos = 0
    /\ dNext = 1
    /\ dpc = "select"
    /\ dResp = [i \in 1..Len(q) |-> None]
    /\ dClosed = FALSE
    /\ dRes = [i \in 1..Len(q) |-> NoResult]
    /\ dStart = [i \in 1..Len(q) |-> 0]
    /\ dGot = [i \in 1..Len(q) |-> <<>>]
    /\ dDone = [i \in 1..Len(q) |-> 0]

Unread == SubSeq(dIn, dPos + 1, Len(dIn))

\* cmd.Decode(r) on command i: the command takes what Decode stored, the lines
\* Decode read are gone from the stream.
DecodeCall(i) ==
    LET r == Decode(dCmds[i], Unread) IN
    /\ dCmds' = [dCmds EXCEPT ![i] = r.cmd]
    /\ dPos' = dPos + r.n
    /\ dResp' = [dResp EXCEPT ![i] = r.err]
    /\ dStart' = [dStart EXCEPT ![i] = dPos]
    /\ dGot' = [dGot EXCEPT ![i] =
                    IF r.err = ErrNil THEN SubSeq(dIn, dPos + 1, dPos + r.n) ELSE @]
    /\ dDone' = [dDone EXCEPT ![i] = IF r.err = ErrNil THEN @ + 1 ELSE @]

\* cmd.Result() on command i.
ResultCall(i) ==
    /\ dRes' = [dRes EXCEPT ![i] = [called |-> TRUE, out |-> Result(dCmds[i]),
                                    after |-> dDone[i], got |-> dGot[i],
                                    failed |-> dResp[i] \notin {None, ErrNil}]]
    /\ UNCHANGED <<dCmds, dIn, dPos, dNext, dpc, dResp, dClosed, dStart, dGot, dDone,
                   outsideCommands>>

\* reader: case next := <-c.decodeCh, and the read deadline is set.
DecReaderRecv ==
    /\ dpc = "select"
    /\ dNext <= Len(dCmds)
    /\ dpc' = "decode"
    /\ UNCHANGED <<dCmds, dIn, dPos, dNext, dResp, dClosed, dRes, dStart, dGot, dDone,
                   outsideCommands>>

\* Faulty variant of DecReaderDecode: the reader shuts down whenever the
\* command's Result would report an error.
DecReaderDecodeStrict ==
    /\ dpc = "decode"
    /\ DecodeCall(dNext)
    /\ dNext' = dNext + 1
    /\ dpc' = IF Result(dCmds'[dNext]).err = ErrNil THEN "select" ELSE "close"
    /\ UNCHANGED <<dIn, dClosed, dRes, outsideCommands>>

\* reader: err := next.Command().Decode(c.bufR); next.respond(err); on an
\* error the reader goes on to c.Close(), otherwise back to the select.
DecReaderDecode ==
    /\ dpc = "decode"
    /\ DecodeCall(dNext)
    /\ dNext' = dNext + 1
    /\ dpc' = IF dResp'[dNext] = ErrNil THEN "select" ELSE "close"
    /\ UNCHANGED <<dIn, dClosed, dRes, outsideCommands>>

\* reader: c.Close() marks the client closed and closes the connection. What
\* the reader does after that is in the client's specification.
DecReaderClose ==
    /\ dpc = "close"
    /\ dClosed' = TRUE
    /\ dpc' = "closed"
    /\ UNCHANGED <<dCmds, dIn, dPos, dNext, dResp, dRes, dStart, dGot, dDone,
                   outsideCommands>>

\* The caller of Execute, its Future resolved, calls Result on the command.
DecResult(i) ==
    /\ dResp[i] # None
    /\ ~dRes[i].called
    /\ ResultCall(i)

DecInit ==
    /\ ClientInit
    /\ FutNew("create")
    /\ NewIdle
    /\ ConfIdle
    /\ \E q \in SeqsUpTo(Kinds, MaxDecCmds), s \in SeqsUpTo(DecLines, MaxDecLines) :
        DecNew(q, s)

DecNext ==
    \/ DecReaderRecv
    \/ DecReaderDecode
    \/ DecReaderClose
    \/ \E i \in 1..Len(dCmds) : DecResult(i)

DecSpec == DecInit /\ [][DecNext]_vars

\* ------------------------------------------------------ one command alone

\* The number of response lines in the reader a command is decoded from.
MaxCmdLines == 3

\* The caller calls cmd.Decode(r) itself, as long as Decode succeeds.
CmdDecode ==
    /\ dResp[1] \in {None, ErrNil}
    /\ DecodeCall(1)
    /\ UNCHANGED <<dIn, dNext, dpc, dClosed, dRes, outsideCommands>>

\* The caller calls cmd.Result(), at any time.
CmdResult ==
    /\ Len(dCmds) = 1
    /\ ResultCall(1)

CmdInit ==
    /\ ClientInit
    /\ FutNew("create")
    /\ NewIdle
    /\ ConfIdle
    /\ \E k \in Kinds, s \in SeqsUpTo(Lines, MaxCmdLines) : DecNew(<<k>>, s)

CmdNext == CmdDecode \/ CmdResult

CmdSpec == CmdInit /\ [][CmdNext]_vars

\* ------------------------------------------------- one list or info alone

\* The number of response lines a list or an info is decoded from.
MaxBlockLines == 4

BlockInit ==
    /\ ClientInit
    /\ FutNew("create")
    /\ NewIdle
    /\ ConfIdle
    /\ \/ \E s \in SeqsUpTo(ListLines, MaxBlockLines) : DecNew(<<"list">>, s)
       \/ \E s \in SeqsUpTo(InfoLines, MaxBlockLines) : DecNew(<<"info">>, s)

BlockSpec == BlockInit /\ [][CmdNext]_vars

\* ------------------------------------------- two commands in the pipeline

\* The number of response lines the reader finds for two queued commands.
MaxPairLines == 4

\* The commands queued: one single-line kind and the two block kinds.
PairKinds == {"create", "list", "info"}

\* The response lines: the block markers, a list entry, an info line whose
\* value is not 0 or 1, and two single-line replies.
PairLines == {LStart, LEnd, LEntry, LInMemoryBad, LDone, LNotExist}

PairInit ==
    /\ ClientInit
    /\ FutNew("create")
    /\ NewIdle
    /\ ConfIdle
    /\ \E k1 \in PairKinds, k2 \in PairKinds, s \in SeqsUpTo(PairLines, MaxPairLines) :
        DecNew(<<k1, k2>>, s)

PairSpec == PairInit /\ [][DecNext]_vars

\* ----------------------------------------------------------- constructors

\* Strings are sequences of code points. The characters the constructors'
\* arguments are made of: a Z 5 _ - space newline colon for names, and a space
\* tab carriage-return newline for keys.
NameChars == {97, 90, 53, 95, 45, 32, 10, 58}

KeyChars == {97, 32, 9, 13, 10}

\* The longest name, the longest key and the largest number of keys.
MaxNameLen == 2

MaxKeyLen == 1

MaxKeys == 2

\* Faulty variant of validWord: the character class without the hyphen.
validWordNoHyphen(s) ==
    /\ Len(s) >= 1
    /\ \A i \in 1..Len(s) : s[i] \in (97..122) \cup (65..90) \cup (48..57) \cup {95}

\* validWord.MatchString(s) for "^[a-zA-Z0-9_-]+$": one character or more, all
\* of the class; $ matches at the end of the text only.
validWord(s) ==
    /\ Len(s) >= 1
    /\ \A i \in 1..Len(s) : s[i] \in (97..122) \cup (65..90) \cup (48..57) \cup {95, 45}

\* Faulty variant of validKey: only space and newline are excluded.
validKeySpaceNewline(s) ==
    /\ Len(s) >= 1
    /\ \A i \in 1..Len(s) : s[i] \notin {32, 10}

\* validKey.MatchString(s) for "^[^ \t\r\n]+$".
validKey(s) ==
    /\ Len(s) >= 1
    /\ \A i \in 1..Len(s) : s[i] \notin {32, 9, 13, 10}

\* The words Encode writes: "create", "list", "drop", "close", "clear", "b",
\* "flush", "info".
Verb(kind) ==
    CASE kind = "create" -> <<99, 114, 101, 97, 116, 101>>
      [] kind = "list" -> <<108, 105, 115, 116>>
      [] kind = "drop" -> <<100, 114, 111, 112>>
      [] kind = "close" -> <<99, 108, 111, 115, 101>>
      [] kind = "clear" -> <<99, 108, 101, 97, 114>>
      [] kind = "setkeys" -> <<98>>
      [] kind = "flush" -> <<102, 108, 117, 115, 104>>
      [] kind = "info" -> <<105, 110, 102, 111>>

\* A space before each key.
RECURSIVE EncodeKeys(_)
EncodeKeys(keys) ==
    IF keys = <<>> THEN <<>> ELSE <<32>> \o Head(keys) \o EncodeKeys(Tail(keys))

\* strconv-style decimal digits of a natural number.
RECURSIVE Itoa(_)
Itoa(n) == IF n < 10 THEN <<48 + n>> ELSE Itoa(n \div 10) \o <<48 + (n % 10)>>

\* fmt's %d of an int.
FormatInt(n) == IF n < 0 THEN <<45>> \o Itoa(0 - n) ELSE Itoa(n)

\* fmt's %f of a float64, which prints six decimals. The value is e
\* ten-millionths; the sampled values are not halfway between two
\* six-decimal numbers, so rounding to nearest is all there is to it.
FormatFloat(e) ==
    LET a == IF e < 0 THEN 0 - e ELSE e
        r == (a \div 10) + (IF a % 10 >= 5 THEN 1 ELSE 0)
        frac == r % 1000000
    IN  (IF e < 0 THEN <<45>> ELSE <<>>)
            \o Itoa(r \div 1000000) \o <<46>>
            \o [i \in 1..6 |-> 48 + ((frac \div (10 ^ (6 - i))) % 10)]

\* A CreateCommand as NewCreateCommand leaves it.
NoOpts == [Precision |-> 0, ErrThreshold |-> 0, InMemory |-> FALSE]

\* Values a caller gives Precision, and ErrThreshold in ten-millionths
\* (0.05, 0.1234567, 0.0000004, 1.25, -0.05).
PrecisionVals == {0, 12, -3}

ErrThresholdVals == {0, 500000, 1234567, 4, 12500000, -500000}

\* " precision=", " eps=", " in_memory=true"
FmtPrecision == <<32, 112, 114, 101, 99, 105, 115, 105, 111, 110, 61>>

FmtEps == <<32, 101, 112, 115, 61>>

FmtInMemory == <<32, 105, 110, 95, 109, 101, 109, 111, 114, 121, 61, 116, 114, 117, 101>>

\* CreateCommand.Encode with the eps option written before the precision.
EncodeEpsFirst(kind, name, keys, opts) ==
    CASE kind = "create" ->
            Verb(kind) \o <<32>> \o name
                \o (IF opts.ErrThreshold # 0
                    THEN FmtEps \o FormatFloat(opts.ErrThreshold) ELSE <<>>)
                \o (IF opts.Precision # 0
                    THEN FmtPrecision \o FormatInt(opts.Precision) ELSE <<>>)
                \o (IF opts.InMemory THEN FmtInMemory ELSE <<>>)
                \o <<10>>
      [] kind \in {"list", "flush"} ->
            Verb(kind) \o (IF name # <<>> THEN <<32>> \o name ELSE <<>>) \o <<10>>
      [] kind = "setkeys" ->
            Verb(kind) \o <<32>> \o name \o EncodeKeys(keys) \o <<10>>
      [] OTHER ->
            Verb(kind) \o <<32>> \o name \o <<10>>

\* Command.Encode: the bytes written.
Encode(kind, name, keys, opts) ==
    CASE kind = "create" ->
            Verb(kind) \o <<32>> \o name
                \o (IF opts.Precision # 0
                    THEN FmtPrecision \o FormatInt(opts.Precision) ELSE <<>>)
                \o (IF opts.ErrThreshold # 0
                    THEN FmtEps \o FormatFloat(opts.ErrThreshold) ELSE <<>>)
                \o (IF opts.InMemory THEN FmtInMemory ELSE <<>>)
                \o <<10>>
      [] kind \in {"list", "flush"} ->
            Verb(kind) \o (IF name # <<>> THEN <<32>> \o name ELSE <<>>) \o <<10>>
      [] kind = "setkeys" ->
            Verb(kind) \o <<32>> \o name \o EncodeKeys(keys) \o <<10>>
      [] OTHER ->
            Verb(kind) \o <<32>> \o name \o <<10>>

\* The constructor of kind k is called with the name n.
NewStart(k, n) ==
    /\ nKind = k
    /\ nName = n
    /\ nKeys = <<>>
    /\ nOut = None
    /\ nOpts = NoOpts
    /\ nWire = <<>>
    /\ npc = "call"

\* NewCreateCommand, NewDropCommand, NewCloseCommand, NewClearCommand,
\* NewInfoCommand: the name must match validWord.
NewNamed ==
    /\ npc = "call"
    /\ nKind \in {"create", "drop", "close", "clear", "info"}
    /\ nOut' = IF ~validWord(nName) THEN "error" ELSE "cmd"
    /\ npc' = "done"
    /\ UNCHANGED <<nKind, nName, nKeys, nOpts, nWire, outsideNew>>

\* NewListCommand, NewFlushCommand: the argument may be empty.
NewOptional ==
    /\ npc = "call"
    /\ nKind \in {"list", "flush"}
    /\ nOut' = IF nName # <<>> /\ ~validWord(nName) THEN "error" ELSE "cmd"
    /\ npc' = "done"
    /\ UNCHANGED <<nKind, nName, nKeys, nOpts, nWire, outsideNew>>

\* NewSetKeysCommand up to its loop: the name must match validWord and keys
\* must not be empty.
NewSetKeys ==
    /\ npc = "call"
    /\ nKind = "setkeys"
    /\ \E empty \in BOOLEAN :
        IF ~validWord(nName) \/ empty
        THEN nOut' = "error" /\ npc' = "done"
        ELSE nOut' = nOut /\ npc' = "keys"
    /\ UNCHANGED <<nKind, nName, nKeys, nOpts, nWire, outsideNew>>

\* NewSetKeysCommand, for _, key := range keys: the next key must match
\* validKey; after the last one the command is returned.
NewSetKeysKey ==
    /\ npc = "keys"
    /\ \E key \in SeqsUpTo(KeyChars, MaxKeyLen), last \in BOOLEAN :
        /\ nKeys' = Append(nKeys, key)
        /\ IF ~validKey(key)
           THEN nOut' = "error" /\ npc' = "done"
           ELSE IF last \/ Len(nKeys) + 1 >= MaxKeys
                THEN nOut' = "cmd" /\ npc' = "done"
                ELSE nOut' = nOut /\ npc' = "keys"
    /\ UNCHANGED <<nKind, nName, nOpts, nWire, outsideNew>>

\* The caller sets the exported fields of the CreateCommand it was given
\* before executing it.
NewSetOptions ==
    /\ npc = "done"
    /\ nOut = "cmd"
    /\ nKind = "create"
    /\ \E p \in PrecisionVals, e \in ErrThresholdVals, m \in BOOLEAN :
        nOpts' = [Precision |-> p, ErrThreshold |-> e, InMemory |-> m]
    /\ nOpts' # nOpts
    /\ UNCHANGED <<nKind, nName, nKeys, nOut, nWire, npc, outsideNew>>

\* Execute with the command the caller holds: cmd.Encode(c.bufW) and
\* c.bufW.Flush(). A constructor that returned an error returned no command.
NewExecute ==
    /\ npc = "done"
    /\ nOut = "cmd"
    /\ nWire' = nWire \o Encode(nKind, nName, nKeys, nOpts)
    /\ npc' = "sent"
    /\ UNCHANGED <<nKind, nName, nKeys, nOut, nOpts, outsideNew>>

NewInit ==
    /\ ClientInit
    /\ FutNew("create")
    /\ DecIdle
    /\ ConfIdle
    /\ \E k \in Kinds, n \in SeqsUpTo(NameChars, MaxNameLen) : NewStart(k, n)

NewNext ==
    NewNamed \/ NewOptional \/ NewSetKeys \/ NewSetKeysKey \/ NewSetOptions \/ NewExecute

NewSpec == NewInit /\ [][NewNext]_vars

\* ---------------------------------------------------------------- config

\* Config.Validate accepting a zero MaxPipeline and a zero Timeout.
ValidateAllowsZero(c) ==
    IF c.MaxPipeline < 0 THEN "max pipeline must be positive"
    ELSE IF c.Timeout < 0 THEN "timeout must be positive"
    ELSE ErrNil

\* Config.Validate: the error it returns.
Validate(c) ==
    IF c.MaxPipeline <= 0 THEN "max pipeline must be positive"
    ELSE IF c.Timeout <= 0 THEN "timeout must be positive"
    ELSE ErrNil

\* DefaultConfig(): 8192 commands, 5 * time.Second.
DefaultConfig == Config(8192, 5000)

\* The configs NewClient is called with.
ConfMaxPipelines == {-2, -1, 0, 1, 2, 3, 8192}

ConfTimeouts == {-1000, -1, 0, 1, 2, 1000, 5000}

ConfConfigs ==
    {NilConfig} \cup {Config(m, t) : m \in ConfMaxPipelines, t \in ConfTimeouts}

\* if config == nil { config = DefaultConfig() }
ConfDefault ==
    /\ confpc = "call"
    /\ confCfg' = IF confArg.nil THEN DefaultConfig ELSE confArg
    /\ confpc' = "validate"
    /\ UNCHANGED <<confArg, confOut, confReader, outsideConf>>

\* if err := config.Validate(); err != nil { return nil, err }
ConfValidate ==
    /\ confpc = "validate"
    /\ IF Validate(confCfg) # ErrNil
       THEN confOut' = "error" /\ confpc' = "done"
       ELSE confOut' = confOut /\ confpc' = "make"
    /\ UNCHANGED <<confArg, confCfg, confReader, outsideConf>>

\* c := &Client{...}; go c.reader(); return c, nil
ConfMake ==
    /\ confpc = "make"
    /\ confReader' = TRUE
    /\ confOut' = "client"
    /\ confpc' = "done"
    /\ UNCHANGED <<confArg, confCfg, outsideConf>>

ConfInit ==
    /\ ClientInit
    /\ FutNew("create")
    /\ DecIdle
    /\ NewIdle
    /\ \E a \in ConfConfigs : ConfStart(a)

ConfNext == ConfDefault \/ ConfValidate \/ ConfMake

ConfSpec == ConfInit /\ [][ConfNext]_vars

\* ------------------------------------------------------- derived notions

IsPrefix(s, t) == Len(s) <= Len(t) /\ \A i \in 1..Len(s) : s[i] = t[i]

InQueue(q, f) == \E i \in 1..Len(q) : q[i] = f

\* The goroutine is inside a call of Close.
InClose(p) == pc[p] \in {"c_lock", "c_check", "c_conn", "c_defer"}

\* The thread is inside Execute, between writeLock.Lock() and the deferred Unlock.
InLockedSection(t) ==
    \/ pc[t] \in {"e_check", "e_write", "e_push", "e_ret"}
    \/ InClose(t) /\ retAddr[t] = "e_ret"

\* ------------------------------------------------------------------ C1

C2_QueuedEventuallyResolved ==
    \A c \in Cmds : (c \in atClose) ~> (fut[c].done >= 1)

\* ------------------------------------------------------------------ C3

\* C3: respond is called at most once on every Future.
C3_RespondAtMostOnce == \A c \in Cmds : fut[c].done <= 1

\* All three resolving paths have run: a decode, the reader's drain loop and
\* Execute's closed-during-push path.
C3_Witness ==
    \E a, b, c \in Cmds :
        /\ fut[a].by = "reader" /\ fut[a].err = ErrNil
        /\ fut[b].by = "reader" /\ fut[b].err = ErrClientClosed
        /\ fut[c].by = "execute" /\ fut[c].done = 1

\* ------------------------------------------------------------------ C4

\* C4 (the claim): when a Decode fails its future holds that error, and then the
\* client is closed, decodeCh is drained with ErrClientClosed and the reader exits.
C4_DecodeErrorDrains ==
    /\ [](\A c \in Cmds : fut[c].err = ErrDecode => fut[c].by = "reader")
    /\ (\E c \in Cmds : fut[c].err = ErrDecode)
          ~> (closedCh /\ decodeCh = <<>> /\ pc[Reader] = "r_done")

\* ------------------------------------------------------------------ C5

\* C5 (the claim): a call of Close made when the client is already closed
\* returns, and closedCh and the connection are closed exactly once.
C5_SecondCloseReturns ==
    /\ [](nCloseCh <= 1 /\ nConnClose <= 1)
    /\ \A p \in Procs : (pc[p] = "c_lock" /\ closed) ~> ~InClose(p)

\* ------------------------------------------------------------------ C6

\* C6 (the claim): an Execute called after the client was closed writes nothing,
\* pushes nothing and returns ErrClientClosed.
C6_ExecuteAfterClose ==
    /\ [](\A c \in afterClose : ~InQueue(wire, c) /\ ~fut[c].made)
    /\ \A c \in Cmds : (c \in afterClose) ~> (execRet[c] = ErrClientClosed)

\* ------------------------------------------------------------------ C7

\* C7 (the claim): when Encode or Flush fails, Execute closes the client and
\* returns the write error, with no Future made and nothing pushed.
C7_WriteErrorReturned ==
    \A c \in Cmds :
        (\E t \in Threads : cmd[t] = c /\ InClose(t) /\ retAddr[t] = "e_ret")
            ~> (closedCh /\ execRet[c] = ErrWrite /\ ~fut[c].made)

\* ------------------------------------------------------------------ C8

\* C8: a caller at the push is blocked while decodeCh is full and the client
\* open, and can go on as soon as a slot is free or the client is closed; it
\* leaves the push only by sending into a free slot or, the client closed, by
\* resolving its future with ErrClientClosed without queueing it, and then
\* Execute returns the future.
C8_BlockedPush ==
    /\ [][\A t \in Threads :
            (pc[t] = "e_push" /\ pc'[t] # "e_push") =>
                /\ pc'[t] = "e_ret" /\ lret'[t] = "future"
                /\ \/ /\ Len(decodeCh) < MaxPipeline
                      /\ decodeCh' = Append(decodeCh, cmd[t])
                      /\ fut'[cmd[t]].done = 0
                   \/ /\ closedCh
                      /\ decodeCh' = decodeCh
                      /\ ~InQueue(decodeCh', cmd[t])
                      /\ fut'[cmd[t]].done = 1
                      /\ fut'[cmd[t]].err = ErrClientClosed]_vars
    /\ [](\A t \in Threads :
            pc[t] = "e_push" =>
                (ENABLED ExecStep(t) <=> (Len(decodeCh) < MaxPipeline \/ closedCh)))
    /\ [](\A t \in Threads :
            (pc[t] = "e_ret" /\ lret[t] = "future") =>
                ENABLED (ExecStep(t) /\ execRet'[cmd[t]] = "future"))

\* A caller found decodeCh full, and was let go by the close: its future holds
\* ErrClientClosed and is not among the MaxPipeline futures still queued.
C8_Witness ==
    \E t \in Threads :
        /\ pc[t] = "e_ret"
        /\ fut[cmd[t]].by = "execute"
        /\ Len(decodeCh) = MaxPipeline

\* ------------------------------------------------------------------ C9

C10_LockNotHeldAtPush ==
    ~ \E t, u \in Threads :
        /\ pc[t] = "e_push" /\ writeLock = t
        /\ Len(decodeCh) >= MaxPipeline /\ ~closedCh
        /\ pc[Reader] = "r_decode"
        /\ pc[u] = "e_lock"

\* C10 (amended): the write lock is held from Lock to the return of Execute,
\* the push included, and by nobody else: a caller whose Execute has returned
\* holds no lock, whether or not its future is resolved.
C10_LockScope ==
    /\ \A t \in Threads : (writeLock = t) <=> InLockedSection(t)
    /\ writeLock \in Threads \cup {None}

\* A caller writes its command while the reader waits for the response to an
\* earlier one, whose Execute has returned.
C10_Witness ==
    \E t \in Threads, c \in Cmds :
        /\ pc[t] = "e_write" /\ writeLock = t
        /\ execRet[c] = "future" /\ fut[c].done = 0
        /\ pc[Reader] = "r_decode" /\ next = c

\* ------------------------------------------------------------------ C11

\* C11 (the claim, without the error value): every future that is unresolved
\* when Close closes closedCh, queued or being decoded, is eventually resolved,
\* and every Execute called later returns ErrClientClosed. (The claim adds that
\* the futures are resolved with ErrClientClosed.)
C11_CloseFailsOutstandingAndLater ==
    /\ \A c \in Cmds : (c \in atClose \/ c = nextAtClose) ~> (fut[c].done >= 1)
    /\ \A c \in Cmds : (c \in afterClose) ~> (execRet[c] = ErrClientClosed)

\* ------------------------------------------------------------------ C12

\* The commands flushed to the wire whose futures are not resolved.
InFlight == {c \in Cmds : InQueue(wire, c) /\ fut[c].done = 0}

C13_ErrorBlocksUntilResolved ==
    /\ [][\A w \in Waiters : (wpc[w] = "recv" /\ wpc'[w] # "recv") => fDone]_vars
    /\ [](~fDone => errsSeen = {})
    /\ \A w \in Waiters : (fDone /\ wpc[w] \in {"recv", "read"}) ~> (wpc[w] = "idle")

\* respond has run and both waiters have made all their calls, Error among
\* them, and have returned.
C13_Witness ==
    /\ fDone
    /\ \A w \in Waiters : wCalls[w] = MaxWaiterCalls /\ wpc[w] = "idle"
    /\ errsSeen # {}

\* ------------------------------------------------------------------ C14

\* C14: every call of Error returns the value respond was called with, so all
\* calls return the same value, and every call of Command returns the command
\* the Future was made with.
C14_ErrorIdempotent ==
    /\ errsSeen \subseteq {fArg}
    /\ Cardinality(errsSeen) <= 1
    /\ cmdsSeen \subseteq {fMadeWith}

\* Both waiters have made all their calls and Error has returned a non-nil error.
C14_Witness ==
    /\ \A w \in Waiters : wCalls[w] = MaxWaiterCalls /\ wpc[w] = "idle"
    /\ errsSeen = {ErrClientClosed}
    /\ cmdsSeen = {"list"}

\* ------------------------------------------------------------------ C15

\* Nothing has gone wrong: no user has called Close, no Encode or Flush has
\* failed and every Decode has found a well-formed response.
NoFailure ==
    /\ nClose = 0
    /\ \A t \in Threads : lret[t] # ErrWrite
    /\ \A c \in Cmds : fut[c].err # ErrDecode

\* C15: as long as every write succeeds, every response decodes and nobody calls
\* Close, the exchange leaves the client open, every resolved future holds nil,
\* and time and again the futures of all the commands flushed so far are
\* resolved with nil (so each of them is, eventually).
C15_PipelineSucceeds ==
    /\ [](NoFailure =>
            /\ ~closed /\ ~closedCh /\ nConnClose = 0
            /\ \A c \in Cmds : fut[c].done >= 1 => fut[c].err = ErrNil)
    /\ ([]NoFailure) =>
          []<>(\A c \in Cmds : InQueue(wire, c) => (fut[c].done = 1 /\ fut[c].err = ErrNil))

\* MaxCmds commands were executed back to back, all answered: every future holds
\* nil and the client is open.
C15_Witness ==
    /\ \A c \in Cmds : execRet[c] = "future" /\ fut[c].done = 1 /\ fut[c].err = ErrNil
    /\ ~closed /\ ~closedCh

\* ------------------------------------------------------------------ C16

\* The response lines a single-line command's Result has a case for.
Recognized(kind) ==
    CASE kind = "create" -> {LDone, LExists, LDeleting}
      [] kind \in {"drop", "close", "clear"} -> {LDone, LNotExist, LNotProxied}
      [] kind \in {"setkeys", "flush"} -> {LDone, LNotExist}
      [] OTHER -> {}

\* Command i is a single-line command whose Decode found a line that is none of
\* its recognized responses.
GotUnrecognized(i) ==
    /\ dCmds[i].kind \in SingleLineKinds
    /\ dResp[i] # None
    /\ dStart[i] < Len(dIn)
    /\ dIn[dStart[i] + 1] \notin Recognized(dCmds[i].kind)

\* What decoding a new command of kind k from line n + 1 of the stream gives.
DecodedFrom(k, n) == Decode(NewCmd(k), SubSeq(dIn, n + 1, Len(dIn)))

C17_ResultBeforeDecode ==
    \A i \in 1..Len(dCmds) :
        (dRes[i].called /\ dRes[i].after = 0) =>
            dRes[i].out = Bool(FALSE, ErrNotDecoded)

\* Result was called on a list command whose only Decode had stored a line
\* and then failed for want of END.
C17_Witness ==
    /\ dRes[1].called /\ dRes[1].after = 0
    /\ dCmds[1].kind = "list" /\ dCmds[1].lines # <<>> /\ dResp[1] = ErrRead

\* ------------------------------------------------------------------ C18

\* The mapping the claim gives for drop, close and clear.
C18_Expected(kind, line) ==
    CASE line = LDone -> Bool(TRUE, ErrNil)
      [] line = LNotExist -> Bool(kind = "drop", ErrNil)
      [] line = LNotProxied /\ kind = "clear" -> Bool(FALSE, ErrNil)
      [] OTHER -> Bool(FALSE, ErrInvalidResponse)

\* C18: after a completed Decode, Result of a drop is true for Done and for
\* Set does not exist, Result of a close is true for Done and false for Set
\* does not exist, Result of a clear is true for Done, false for Set does not
\* exist and false for Set is not proxied; for each of the three every other
\* line gives an invalid-response error.
C18_SetResultMapping ==
    \A i \in 1..Len(dCmds) :
        (dCmds[i].kind \in {"drop", "close", "clear"} /\ dRes[i].called
            /\ dRes[i].after >= 1) =>
            LET exp == C18_Expected(dCmds[i].kind, dRes[i].got[1]) IN
            /\ dRes[i].out.err = exp.err
            /\ exp.err = ErrNil => dRes[i].out.val = exp.val

\* ------------------------------------------------------------------ C19

\* The mapping the claim gives for create, setkeys and flush.
C19_Expected(kind, line) ==
    CASE kind = "create" /\ line \in {LDone, LExists} -> Bool(TRUE, ErrNil)
      [] kind = "create" /\ line = LDeleting -> Bool(FALSE, ErrNil)
      [] kind \in {"setkeys", "flush"} /\ line = LDone -> Bool(TRUE, ErrNil)
      [] kind \in {"setkeys", "flush"} /\ line = LNotExist -> Bool(FALSE, ErrNil)
      [] OTHER -> Bool(FALSE, ErrInvalidResponse)

\* C19: after a completed Decode, Result of a create is success for Done and
\* for Exists and not-created without error for Delete in progress; Result of
\* a setkeys or a flush is true for Done and false without error for Set does
\* not exist; for each of them every other line gives an invalid-response
\* error.
C19_CreateSetKeysFlushMapping ==
    \A i \in 1..Len(dCmds) :
        (dCmds[i].kind \in {"create", "setkeys", "flush"} /\ dRes[i].called
            /\ dRes[i].after >= 1) =>
            LET exp == C19_Expected(dCmds[i].kind, dRes[i].got[1]) IN
            /\ dRes[i].out.err = exp.err
            /\ exp.err = ErrNil => dRes[i].out.val = exp.val

\* Result was called on a setkeys that had decoded Set does not exist.
C19_Witness ==
    /\ dCmds[1].kind = "setkeys"
    /\ dRes[1].called /\ dRes[1].after = 1
    /\ dRes[1].got = <<LNotExist>>
    /\ dRes[1].out = Bool(FALSE, ErrNil)

\* ------------------------------------------------------------------ C20

\* A non-empty string of letters, digits, underscore and hyphen.
C20_IsName(s) ==
    /\ s # <<>>
    /\ \A i \in 1..Len(s) :
        \/ s[i] \in 65..90
        \/ s[i] \in 97..122
        \/ s[i] \in 48..57
        \/ s[i] = 95
        \/ s[i] = 45

\* A non-empty string without space, tab, carriage return and newline.
C20_IsKey(s) ==
    /\ s # <<>>
    /\ \A i \in 1..Len(s) : s[i] # 32 /\ s[i] # 9 /\ s[i] # 13 /\ s[i] # 10

\* The arguments the claim says a constructor accepts; nKeys is the key list
\* up to the key the constructor stopped at.
C20_Acceptable ==
    CASE nKind \in {"list", "flush"} -> nName = <<>> \/ C20_IsName(nName)
      [] nKind = "setkeys" ->
            /\ C20_IsName(nName)
            /\ nKeys # <<>>
            /\ \A i \in 1..Len(nKeys) : C20_IsKey(nKeys[i])
      [] OTHER -> C20_IsName(nName)

C21_Has(s, ch) == \E i \in 1..Len(s) : s[i] = ch

\* A non-empty string of letters, digits and underscore.
C21_IsPlainWord(s) ==
    /\ s # <<>>
    /\ \A i \in 1..Len(s) :
        s[i] \in 65..90 \/ s[i] \in 97..122 \/ s[i] \in 48..57 \/ s[i] = 95

\* C21: validWord, as the constructors of the named commands apply it, refuses
\* a name with a hyphen, a name with a space, a name with a colon and the
\* empty name, and accepts a name made of letters, digits and underscore only.
C21_ValidWordRejectsHyphen ==
    (nKind \in {"create", "drop", "close", "clear", "info"} /\ nOut # None) =>
        /\ (nName = <<>> \/ C21_Has(nName, 45) \/ C21_Has(nName, 32)
                \/ C21_Has(nName, 58)) => nOut = "error"
        /\ C21_IsPlainWord(nName) => nOut = "cmd"

\* ------------------------------------------------------------------ C22

\* The lines of ListLines of the form <name> <eps> <precision> <size> <storage>,
\* and their names: foo and bar.
C22_GoodEntries == {LEntry, LEntry2}

C22_NameOf(line) == IF line = LEntry THEN <<102, 111, 111>> ELSE <<98, 97, 114>>

\* The lines between the first and the last one.
C22_Content(got) == SubSeq(got, 2, Len(got) - 1)

\* C22: for a list, a Decode that finds a first line other than START fails
\* with the list-start protocol error; after one Decode, completed, Result
\* returns one entry per line between START and END in the order received when
\* every such line has the entry form, and a parse error and no entries when
\* one of them has not.
C22_ListDecodeResult ==
    dCmds[1].kind = "list" =>
        /\ (dResp[1] # None /\ dDone[1] = 0 /\ dIn # <<>> /\ dIn[1] # LStart) =>
                dResp[1] = ErrListStart
        /\ (dRes[1].called /\ dRes[1].after = 1 /\ ~dRes[1].failed) =>
                LET content == C22_Content(dRes[1].got)
                    out == dRes[1].out IN
                IF \A i \in 1..Len(content) : content[i] \in C22_GoodEntries
                THEN /\ out.err = ErrNil
                     /\ out.has
                     /\ Len(out.ptr) = Len(content)
                     /\ \A i \in 1..Len(content) :
                            out.ptr[i].Name = C22_NameOf(content[i])
                ELSE out = Bool(FALSE, ErrParse)

\* A list decoded START, bar, foo, END and Result returned bar, then foo.
C22_Witness ==
    /\ dCmds[1].kind = "list"
    /\ dRes[1].called /\ dRes[1].after = 1 /\ ~dRes[1].failed
    /\ dRes[1].got = <<LStart, LEntry2, LEntry, LEnd>>
    /\ dRes[1].out.ptr[1].Name = <<98, 97, 114>>
    /\ dRes[1].out.ptr[2].Name = <<102, 111, 111>>
    /\ dRes[1].out.ptr[2].Storage = 4

\* ------------------------------------------------------------------ C23

\* The lines of InfoLines with a recognized key and a well-formed value.
C23_GoodLines == {LSize, LInMemory, LEps}

\* C23: for an info, after one Decode, completed: a first line Set does not
\* exist gives (absent, no error); a START..END block whose lines all have a
\* recognized key and a well-formed value gives a SetInfo and no error; a block
\* with a line whose key is not recognized or whose value is malformed or
\* missing makes Result return a parse error.
C23_InfoDecodeResult ==
    (dCmds[1].kind = "info" /\ dRes[1].called /\ dRes[1].after = 1
        /\ ~dRes[1].failed) =>
        LET got == dRes[1].got
            content == SubSeq(got, 2, Len(got) - 1)
            out == dRes[1].out IN
        IF got = <<LNotExist>>
        THEN out = Bool(FALSE, ErrNil)
        ELSE IF \A i \in 1..Len(content) : content[i] \in C23_GoodLines
             THEN out.err = ErrNil /\ out.has /\ out.val
             ELSE out = Bool(FALSE, ErrParse)

\* ------------------------------------------------------------------ C24

\* The pieces of b between single spaces, empty pieces included.
RECURSIVE C24_SplitOnSpace(_, _, _)
C24_SplitOnSpace(b, cur, acc) ==
    IF b = <<>> THEN Append(acc, cur)
    ELSE IF Head(b) = 32 THEN C24_SplitOnSpace(Tail(b), <<>>, Append(acc, cur))
         ELSE C24_SplitOnSpace(Tail(b), Append(cur, Head(b)), acc)

C24_Rest(f, lit) == SubSeq(f, Len(lit) + 1, Len(f))

\* "precision=" and a plain integer that reads back as p.
C24_IsPrecision(f, p) ==
    LET lit == Tail(FmtPrecision) IN
    /\ IsPrefix(lit, f)
    /\ ParsesInt(C24_Rest(f, lit))
    /\ C24_Rest(f, lit)[1] # 43
    /\ IntOf(C24_Rest(f, lit)) = p

\* "eps=" and a decimal with exactly six digits after the point, the nearest
\* such number to e ten-millionths.
C24_IsEps(f, e) ==
    LET lit == Tail(FmtEps)
        t == C24_Rest(f, lit)
        a == IF e < 0 THEN 0 - e ELSE e
        d == 10 * FloatOf(t).mant - a IN
    /\ IsPrefix(lit, f)
    /\ ParsesFloat(t)
    /\ FloatOf(t).scale = 6
    /\ FloatOf(t).neg = (e < 0)
    /\ d <= 5 /\ 0 - d <= 5

C24_WitnessKeys ==
    /\ npc = "sent"
    /\ nKind = "setkeys"
    /\ Len(nKeys) = 2
    /\ nWire = <<98, 32>> \o nName \o <<32>> \o nKeys[1] \o <<32>> \o nKeys[2] \o <<10>>

\* ------------------------------------------------------------------ C25

\* The config NewClient works with: the default one for nil.
C25_Effective == IF confArg.nil THEN DefaultConfig ELSE confArg

C25_Positive(c) == c.MaxPipeline > 0 /\ c.Timeout > 0

\* C25: Validate returns no error exactly for a config with MaxPipeline > 0
\* and Timeout > 0; DefaultConfig passes it; a NewClient that has returned
\* gave a client, with the reader started, exactly when the config it works
\* with has both fields positive, and otherwise an error and no client; the
\* reader is never started in a call that returns an error.
C25_ValidateAndNewClient ==
    /\ confpc \in {"make", "done"} =>
            ((Validate(confCfg) = ErrNil) <=> C25_Positive(confCfg))
    /\ Validate(DefaultConfig) = ErrNil
    /\ confpc = "done" =>
            IF C25_Positive(C25_Effective)
            THEN confOut = "client" /\ confReader
            ELSE confOut = "error" /\ ~confReader
    /\ confpc \in {"call", "validate", "make"} => (confOut = None /\ ~confReader)

\* NewClient refused a config with a positive MaxPipeline and a zero Timeout.
C25_Witness ==
    /\ confpc = "done"
    /\ confArg = Config(1, 0)
    /\ confOut = "error"
    /\ ~confReader

\* NewClient given nil returned a client.
C25_WitnessNil ==
    /\ confpc = "done"
    /\ confArg.nil
    /\ confOut = "client"

\* ------------------------------------------------------------------ C26

\* A content line that is well formed for a command of this kind.
C26_WellFormed(kind, line) ==
    IF kind = "list" THEN line \in C22_GoodEntries ELSE line \in C23_GoodLines

\* The reader decoded a START..END block for command i with a content line
\* that is not well formed.
C26_BadBlock(i) ==
    /\ dCmds[i].kind \in {"list", "info"}
    /\ dDone[i] = 1
    /\ dGot[i][1] = LStart
    /\ \E j \in 2..(Len(dGot[i]) - 1) : ~C26_WellFormed(dCmds[i].kind, dGot[i][j])

\* C26: when the block decoded for a list or an info has a content line that
\* is malformed or not recognized, its Decode read through END and returned
\* no error, the reader did not close the client for it, the next command's
\* Decode starts right after that END, and the command's Result returns the
\* parse error.
C26_BadBlockKeepsPipeline ==
    C26_BadBlock(1) =>
        /\ dResp[1] = ErrNil
        /\ dGot[1][Len(dGot[1])] = LEnd
        /\ dNext = 2 => (dpc \in {"select", "decode"} /\ ~dClosed
                            /\ dPos = Len(dGot[1]))
        /\ dNext = 3 => dStart[2] = Len(dGot[1])
        /\ dRes[1].called => dRes[1].out = Bool(FALSE, ErrParse)

\* ------------------------------------------------------------------ C27

\* The lines of one response to a command of this kind.
C27_OneResponse(kind, got) ==
    CASE kind = "list" ->
            /\ Len(got) >= 2
            /\ got[1] = LStart /\ got[Len(got)] = LEnd
            /\ \A j \in 1..(Len(got) - 1) : got[j] # LEnd
      [] kind = "info" ->
            \/ got = <<LNotExist>>
            \/ /\ Len(got) >= 2
               /\ got[1] = LStart /\ got[Len(got)] = LEnd
               /\ \A j \in 1..(Len(got) - 1) : got[j] # LEnd
      [] OTHER -> Len(got) = 1

\* C27: a Decode that returned no error took from the stream exactly the
\* lines of one response (one line for a single-line command and for an
\* info answered Set does not exist, START through the first END for a list
\* or info block), starting where the stream stood, and the stream then
\* stands right behind them, where the next Decode starts.
C27_DecodeConsumesOneResponse ==
    \A i \in 1..Len(dCmds) :
        dResp[i] = ErrNil =>
            /\ C27_OneResponse(dCmds[i].kind, dGot[i])
            /\ dGot[i] = SubSeq(dIn, dStart[i] + 1, dStart[i] + Len(dGot[i]))
            /\ dStart[i] = IF i = 1 THEN 0 ELSE dStart[1] + Len(dGot[1])
            /\ dNext = i + 1 => dPos = dStart[i] + Len(dGot[i])

\* An info answered Set does not exist took that line only, and the create
\* queued behind it took the next line, Done.
C27_Witness ==
    /\ dCmds[1].kind = "info" /\ dCmds[2].kind = "create"
    /\ dResp = <<ErrNil, ErrNil>>
    /\ dGot = <<(<<LNotExist>>), (<<LDone>>)>>
    /\ dPos = 2
    /\ Len(dIn) > 2

\* A list block was followed by an info block.
C27_WitnessBlocks ==
    /\ dCmds[1].kind = "list" /\ dCmds[2].kind = "info"
    /\ dResp = <<ErrNil, ErrNil>>
    /\ dGot = <<(<<LStart, LEntry, LEnd>>), (<<LStart, LEnd>>)>>

\* ------------------------------------------------------------------ C28

\* C28 (the claim): once closedCh is closed, by a Close from outside, by
\* Execute after a failed write or by the reader after a failed Decode, the
\* reader eventually returns.
C28_ReaderExitsAfterClose == closedCh ~> (pc[Reader] = "r_done")

\* ------------------------------------------------------------------ C29

\* The threads inside Execute's locked section.
C29_Writers == {t \in Threads : InLockedSection(t)}

\* C29: at most one thread is between Execute's writeLock.Lock() and its
\* Unlock, and it is the holder of the write lock, so only one thread at a
\* time is at the encode and flush; a Decode is in progress in the reader
\* only, on the one future it took from decodeCh, which nobody else holds.
C29_OneWriterOneDecoder ==
    /\ Cardinality(C29_Writers) <= 1
    /\ \A t \in C29_Writers : writeLock = t
    /\ \A p \in Procs : pc[p] \in {"r_select", "r_decode", "r_drain", "r_done"} => p = Reader
    /\ pc[Reader] = "r_decode" =>
            /\ next \in Cmds
            /\ ~InQueue(decodeCh, next)
            /\ fut[next].done = 0
            /\ InQueue(wire, next)

\* One thread is at the encode and flush, the other waits for the write lock,
\* and the reader is decoding the response of an earlier command.
C29_Witness ==
    /\ pc["t1"] = "e_write"
    /\ pc["t2"] = "e_lock"
    /\ pc[Reader] = "r_decode"

\* ------------------------------------------------------------------ C30

\* C30 (the claim): every call of Close returns, whoever makes it: a thread,
\* Execute after a failed write, the reader after a failed Decode.
C30_CloseReturns == \A p \in Procs : InClose(p) ~> ~InClose(p)

\* ------------------------------------------------------------------ C31

\* C31 (the claim): once the reader has returned, decodeCh holds no future
\* that is unresolved; a future made at the push while the client is closed
\* was resolved by Execute or taken by the reader's drain loop.
C31_NoneLeftQueued ==
    pc[Reader] = "r_done" =>
        \A i \in 1..Len(decodeCh) : fut[decodeCh[i]].done >= 1
====
